---- MODULE Spec2Model ----
(***************************************************************************)
(* Model of the deduplication engine of tools/dedup.py                     *)
(* (DeduplicationManager): text normalization, job fingerprint, pairwise   *)
(* similarity, remove_duplicates, get_duplicate_groups and reset_hashes.   *)
(*                                                                         *)
(* A text is a sequence of one-character strings.  A field value of a job  *)
(* dictionary is a record [kind, s]: kind "str" (a Python str, s its       *)
(* characters), "absent" (the key is missing), "none" (None, a falsy       *)
(* non-string) or "int" (a truthy non-string such as 42).                  *)
(***************************************************************************)
EXTENDS Integers, Sequences, FiniteSets, TLC

\* ------------------------------------------------------------------ bounds

\* Longest batch handed to one call.
MaxBatch == 2

\* Number of calls given a batch (remove_duplicates, get_duplicate_groups) in
\* one run of the model.
MaxCalls == 2

\* Longest batch handed to get_duplicate_groups where it is studied on its own:
\* four jobs are the fewest that can form two groups.
MaxGroupBatch == 4

\* Longest text handed to _normalize_text where it is studied on its own.
MaxTextLen == 4

\* Times _normalize_text is applied in a row: the text, then its own result.
MaxNormalizeCalls == 2

\* Longest normalized string handed to the similarity ratio where it is studied
\* on its own, and the number of times it is taken on a pair (once each way).
MaxRatioLen == 3
MaxRatioCalls == 2

\* Longest field text of the jobs handed to _generate_job_hash where it is
\* studied on its own, before the text is varied; and the number of calls of
\* _generate_job_hash and _is_similar_to_existing made on a pair of jobs.
MaxFieldLen == 2
MaxHelperCalls == 2

\* ------------------------------------------------------- program constants

\* description[:500] in _generate_job_hash.
DescriptionLimit == 500

\* "title_similarity > 0.95", in hundredths.
TitleOnlyThreshold == 95

\* similarity_threshold: float = 0.8, in hundredths.
DefaultThreshold == 80

\* ------------------------------------------------------------- characters

UpperCase ==
    <<"A", "B", "C", "D", "E", "F", "G", "H", "I", "J", "K", "L", "M",
      "N", "O", "P", "Q", "R", "S", "T", "U", "V", "W", "X", "Y", "Z">>

LowerCase ==
    <<"a", "b", "c", "d", "e", "f", "g", "h", "i", "j", "k", "l", "m",
      "n", "o", "p", "q", "r", "s", "t", "u", "v", "w", "x", "y", "z">>

Digits == {"0", "1", "2", "3", "4", "5", "6", "7", "8", "9"}

Range(f) == {f[i] : i \in DOMAIN f}

\* str.lower() on one character.
LowerChar(c) ==
    IF c \in Range(UpperCase)
    THEN LowerCase[CHOOSE i \in DOMAIN UpperCase : UpperCase[i] = c]
    ELSE c

\* \s of the re module.
IsSpace(c) == c \in {" ", "\t", "\n"}

\* \w of the re module: letters, digits and the underscore.
IsWord(c) == c \in Range(UpperCase) \cup Range(LowerCase) \cup Digits \cup {"_"}

\* ---------------------------------------------------------- normalization

\* A normalization that keeps the case.
KeepCase(s) == s

\* text.lower()
LowerText(s) == [i \in 1..Len(s) |-> LowerChar(s[i])]

\* The positions of s, in order.
Positions(s) == [i \in 1..Len(s) |-> i]

\* re.sub(r'\s+', ' ', text): every maximal run of whitespace becomes one
\* space (of a run, the place of its last character is the one kept).
CollapseWhitespace(s) ==
    LET kept == SelectSeq(Positions(s),
                          LAMBDA i : ~(IsSpace(s[i]) /\ i < Len(s) /\ IsSpace(s[i + 1])))
    IN  [k \in 1..Len(kept) |-> IF IsSpace(s[kept[k]]) THEN " " ELSE s[kept[k]]]

\* re.sub(r'[^\w\s]', '', text): drop what is neither a word character nor whitespace.
StripPunctuation(s) == SelectSeq(s, LAMBDA c : IsWord(c) \/ IsSpace(c))

\* text.split(): the maximal runs of non-whitespace characters, in order.
Split(s) ==
    LET starts == SelectSeq(Positions(s),
                            LAMBDA i : ~IsSpace(s[i]) /\ (i = 1 \/ IsSpace(s[i - 1])))
        ends == SelectSeq(Positions(s),
                          LAMBDA j : ~IsSpace(s[j]) /\ (j = Len(s) \/ IsSpace(s[j + 1])))
    IN  [k \in 1..Len(starts) |-> SubSeq(s, starts[k], ends[k])]

\* ' '.join(words)
RECURSIVE Join(_)
Join(words) ==
    IF words = <<>> THEN <<>>
    ELSE IF Len(words) = 1 THEN words[1]
    ELSE words[1] \o <<" ">> \o Join(Tail(words))

stop_words ==
    { <<"t", "h", "e">>, <<"a">>, <<"a", "n">>, <<"a", "n", "d">>, <<"o", "r">>,
      <<"b", "u", "t">>, <<"i", "n">>, <<"o", "n">>, <<"a", "t">>, <<"t", "o">>,
      <<"f", "o", "r">>, <<"o", "f">>, <<"w", "i", "t", "h">>, <<"b", "y">> }

\* A filter that keeps every word.
KeepAllWords(words) == words

\* [word for word in words if word not in stop_words]
RemoveStopWords(words) == SelectSeq(words, LAMBDA w : w \notin stop_words)

\* Field values.
Str(s) == [kind |-> "str", s |-> s]
Absent == [kind |-> "absent", s |-> <<>>]
NoneValue == [kind |-> "none", s |-> <<>>]
IntValue == [kind |-> "int", s |-> <<>>]

\* "not text": None and the empty string are falsy.
IsFalsy(v) == v.kind = "none" \/ (v.kind = "str" /\ v.s = <<>>)

\* _normalize_text raises (AttributeError on text.lower()) for a truthy non-string.
NormalizeRaises(v) == ~IsFalsy(v) /\ v.kind # "str"

\* A normalization that drops the stop words before it strips the punctuation.
NormalizeStopWordsFirst(s) ==
    Join(Split(StripPunctuation(
        Join(RemoveStopWords(Split(CollapseWhitespace(LowerText(s))))))))

\* _normalize_text on a string.
NormalizeString(s) ==
    Join(RemoveStopWords(Split(StripPunctuation(CollapseWhitespace(LowerText(s))))))

\* _normalize_text(text), for a value on which it does not raise.
NormalizeText(v) == IF IsFalsy(v) THEN <<>> ELSE NormalizeString(v.s)

\* ------------------------------------------------------------- fingerprint

\* job[key]: a missing key raises, which a value that cannot be normalized
\* stands for.
JobIndex(job, key) == IF job[key].kind = "absent" THEN IntValue ELSE job[key]

\* job.get(key, ''): the default stands in for a missing key only.
JobGet(job, key) == IF job[key].kind = "absent" THEN Str(<<>>) ELSE job[key]

\* s[:n]
Prefix(s, n) == SubSeq(s, 1, IF Len(s) < n THEN Len(s) ELSE n)

\* _generate_job_hash raises when normalizing one of the four fields raises.
HashRaises(job) ==
    \E key \in {"title", "company", "location", "description"} :
        NormalizeRaises(JobGet(job, key))

\* A hash string that cuts the description before it normalizes it.
HashStringCutFirst(job) ==
    NormalizeText(JobGet(job, "title")) \o <<"|">>
        \o NormalizeText(JobGet(job, "company")) \o <<"|">>
        \o NormalizeText(JobGet(job, "location")) \o <<"|">>
        \o NormalizeText(Str(Prefix(JobGet(job, "description").s, DescriptionLimit)))

\* A hash string that also takes in the url.
HashStringWithUrl(job) ==
    NormalizeText(JobGet(job, "title")) \o <<"|">>
        \o NormalizeText(JobGet(job, "company")) \o <<"|">>
        \o NormalizeText(JobGet(job, "location")) \o <<"|">>
        \o Prefix(NormalizeText(JobGet(job, "description")), DescriptionLimit) \o <<"|">>
        \o NormalizeText(JobGet(job, "url"))

\* hash_string of _generate_job_hash(job), for a job on which it does not raise.
HashString(job) ==
    LET title == NormalizeText(JobGet(job, "title"))
        company == NormalizeText(JobGet(job, "company"))
        location == NormalizeText(JobGet(job, "location"))
        description == Prefix(NormalizeText(JobGet(job, "description")), DescriptionLimit)
    IN  title \o <<"|">> \o company \o <<"|">> \o location \o <<"|">> \o description

\* -------------------------------------------------------------- similarity

\* Length of the common run of a and b that starts at a[i+1], b[j+1] and stays
\* below ahi and bhi (indices as in Python: 0-based, upper bounds excluded).
RECURSIVE RunLength(_, _, _, _, _, _)
RunLength(a, b, i, j, ahi, bhi) ==
    IF i < ahi /\ j < bhi /\ a[i + 1] = b[j + 1]
    THEN 1 + RunLength(a, b, i + 1, j + 1, ahi, bhi)
    ELSE 0

SetMax(S) == CHOOSE m \in S : \A n \in S : n <= m
SetMin(S) == CHOOSE m \in S : \A n \in S : m <= n

\* SequenceMatcher.find_longest_match(alo, ahi, blo, bhi) without junk: the
\* longest common block of a[alo:ahi] and b[blo:bhi]; of the longest ones the
\* one starting earliest in a, and of those the one starting earliest in b.
\* (isjunk is None, and the automatic junk heuristic only acts on a second
\* string of 200 characters or more; the texts compared here are shorter.)
FindLongestMatch(a, b, alo, ahi, blo, bhi) ==
    LET run == [i \in alo..(ahi - 1), j \in blo..(bhi - 1) |->
                   RunLength(a, b, i, j, ahi, bhi)]
        bestsize == SetMax({0} \cup {run[i, j] : i \in alo..(ahi - 1), j \in blo..(bhi - 1)})
    IN  IF bestsize = 0 THEN [i |-> alo, j |-> blo, size |-> 0]
        ELSE LET besti == SetMin({i \in alo..(ahi - 1) :
                                     \E j \in blo..(bhi - 1) : run[i, j] = bestsize})
                 bestj == SetMin({j \in blo..(bhi - 1) : run[besti, j] = bestsize})
             IN  [i |-> besti, j |-> bestj, size |-> bestsize]

\* Sum of the sizes of SequenceMatcher.get_matching_blocks(): the longest block,
\* then the blocks found the same way to its left and to its right.
RECURSIVE MatchedChars(_, _, _, _, _, _)
MatchedChars(a, b, alo, ahi, blo, bhi) ==
    IF alo >= ahi \/ blo >= bhi THEN 0
    ELSE LET m == FindLongestMatch(a, b, alo, ahi, blo, bhi)
         IN  IF m.size = 0 THEN 0
             ELSE m.size
                  + MatchedChars(a, b, alo, m.i, blo, m.j)
                  + MatchedChars(a, b, m.i + m.size, ahi, m.j + m.size, bhi)

\* A ratio that is 0.0 for two empty strings.
RatioZeroWhenEmpty(a, b) ==
    IF Len(a) + Len(b) = 0 THEN [num |-> 0, den |-> 1]
    ELSE [num |-> 2 * MatchedChars(a, b, 0, Len(a), 0, Len(b)), den |-> Len(a) + Len(b)]

\* A ratio that is 1.0 as soon as one of the strings is empty.
RatioOneWhenEitherEmpty(a, b) ==
    IF Len(a) = 0 \/ Len(b) = 0 THEN [num |-> 1, den |-> 1]
    ELSE [num |-> 2 * MatchedChars(a, b, 0, Len(a), 0, Len(b)), den |-> Len(a) + Len(b)]

\* SequenceMatcher(None, a, b).ratio() as the fraction num/den:
\* 2.0 * matches / (len(a) + len(b)), and 1.0 when both are empty.
Ratio(a, b) ==
    IF Len(a) + Len(b) = 0 THEN [num |-> 1, den |-> 1]
    ELSE [num |-> 2 * MatchedChars(a, b, 0, Len(a), 0, Len(b)), den |-> Len(a) + Len(b)]

\* ratio > hundredths / 100
Exceeds(ratio, hundredths) == ratio.num * 100 > hundredths * ratio.den

\* ------------------------------------------------------------------- jobs

\* The job dictionaries the callers hand in.  A job is known by its number:
\* the lists hold references to the caller's dictionaries.
SoftwareEngineeringIntern ==
    Str(<<"S", "o", "f", "t", "w", "a", "r", "e", " ", "E", "n", "g",
         "i", "n", "e", "e", "r", "i", "n", "g", " ", "I", "n",
         "t", "e", "r", "n">>)

SoftwareEngineeringInternship ==
    Str(<<"S", "o", "f", "t", "w", "a", "r", "e", " ", "E", "n", "g",
         "i", "n", "e", "e", "r", "i", "n", "g", " ", "I", "n",
         "t", "e", "r", "n", "s", "h", "i", "p">>)

SoftwareEngineeringInterns ==
    Str(<<"S", "o", "f", "t", "w", "a", "r", "e", " ", "E", "n", "g",
         "i", "n", "e", "e", "r", "i", "n", "g", " ", "I", "n",
         "t", "e", "r", "n", "s">>)

DataAnalystIntern ==
    Str(<<"D", "a", "t", "a", " ", "A", "n", "a", "l", "y", "s", "t",
         " ", "I", "n", "t", "e", "r", "n">>)

AcmeCorp == Str(<<"A", "c", "m", "e", " ", "C", "o", "r", "p">>)

AcmeCorporation ==
    Str(<<"A", "c", "m", "e", " ", "C", "o", "r", "p", "o", "r", "a",
         "t", "i", "o", "n">>)

Globex == Str(<<"G", "l", "o", "b", "e", "x">>)

Acme == Str(<<"A", "c", "m", "e">>)

Remote == Str(<<"R", "e", "m", "o", "t", "e">>)

BuildTools ==
    Str(<<"B", "u", "i", "l", "d", " ", " ", "t", "h", "e", "\t", "t",
         "o", "o", "l", "s", ",", " ", "a", "n", "d", " ", "t",
         "e", "s", "t", ".">>)

\* A word of n characters.
Filler(n) == [i \in 1..n |-> "x"]

JobUrl == Str(<<"h", "t", "t", "p", "s", ":", "/", "/", "j", "o", "b", "s",
         ".", "e", "x", "a", "m", "p", "l", "e", "/", "1">>)

WorkFromHome == Str(<<"W", "o", "r", "k", " ", "F", "r", "o", "m", " ", "H", "o", "m",
                    "e">>)

NoExperienceImmediateStart ==
    Str(<<"N", "o", " ", "e", "x", "p", "e", "r", "i", "e", "n", "c", "e",
         ",", " ", "i", "m", "m", "e", "d", "i", "a", "t", "e", " ", "s",
         "t", "a", "r", "t", ".">>)

JobTable ==
    << [title |-> SoftwareEngineeringIntern, company |-> AcmeCorp,
        location |-> Absent, description |-> Absent, url |-> Absent],
       [title |-> SoftwareEngineeringInternship, company |-> AcmeCorporation,
        location |-> Absent, description |-> Absent, url |-> Absent],
       [title |-> SoftwareEngineeringIntern, company |-> AcmeCorp,
        location |-> Absent, description |-> Absent, url |-> JobUrl],
       [title |-> SoftwareEngineeringInterns, company |-> Globex,
        location |-> Remote, description |-> NoneValue, url |-> Absent],
       [title |-> IntValue, company |-> Acme,
        location |-> Remote, description |-> BuildTools, url |-> Absent],
       [title |-> DataAnalystIntern, company |-> Acme,
        location |-> Remote, description |-> BuildTools, url |-> JobUrl],
       [title |-> DataAnalystIntern, company |-> Acme, location |-> Remote,
        description |-> Str(Filler(DescriptionLimit) \o <<" ", "y">>),
        url |-> Absent],
       [title |-> DataAnalystIntern, company |-> Acme, location |-> Remote,
        description |-> Str(<<".", " ", "t", "h", "e", " ", " ">>
                            \o Filler(DescriptionLimit) \o <<"z">>),
        url |-> Absent],
       [title |-> DataAnalystIntern, company |-> Acme, location |-> Remote,
        description |-> Str(Filler(DescriptionLimit - 1) \o <<" ", "y">>),
        url |-> Absent],
       [title |-> DataAnalystIntern, company |-> IntValue,
        location |-> Absent, description |-> Absent, url |-> Absent],
       [title |-> WorkFromHome, company |-> Globex, location |-> Remote,
        description |-> NoExperienceImmediateStart, url |-> Absent] >>

JobIds == DOMAIN JobTable

\* The jobs whose description is longer than the part the hash takes in:
\* jobs 7 and 8 agree on the first DescriptionLimit characters of the
\* normalized description and differ after them, job 9 differs from both at
\* the last of these characters.
LongJobIds == {7, 8, 9}

\* The jobs of the ordinary batches.  Jobs 10 and 11 are given to the cleaner
\* only: job 10 has a company that is not a string, job 11 is what
\* _detect_fake_jobs takes for a fake posting.
BatchJobIds == JobIds \ (LongJobIds \cup {10, 11})

\* The lists of jobs stored as raw data: a job twice, a job that
\* remove_duplicates cannot hash next to a fake posting, and a fake posting
\* next to an ordinary job.
CleanerBatches == {<<1, 1>>, <<10, 11>>, <<11, 1>>}

\* The batches a call may be given: every list of at most MaxBatch jobs.
Batches == UNION {[1..n -> BatchJobIds] : n \in 0..MaxBatch}

\* The batches get_duplicate_groups is given where it is studied on its own.
GroupBatches == UNION {[1..n -> BatchJobIds] : n \in 0..MaxGroupBatch}

\* The batches of jobs with long descriptions.
LongBatches == UNION {[1..n -> LongJobIds \cup {6}] : n \in 0..MaxBatch}

\* The configured similarity_threshold, in hundredths.
Thresholds == {50, DefaultThreshold}

\* ------------------------------------------------------------------ state

VARIABLES
    similarity_threshold,  \* self.similarity_threshold, in hundredths
    seen_hashes,           \* self.seen_hashes
    last_op,               \* the operation that ran last
    op_jobs,               \* its argument (remove_duplicates, get_duplicate_groups)
    op_result,             \* the list remove_duplicates returned
    op_log,                \* per job of the batch, the branch the loop took
    op_raised,             \* the except branch of the operation ran
    op_groups,             \* the groups get_duplicate_groups returned, as positions
    seen_before,           \* seen_hashes when the last operation began
    accepted,              \* jobs appended to unique_jobs since the last reset
    prior_accepted,        \* accepted, when the last operation began
    exact_rejected,        \* jobs rejected as exact duplicates since the last reset
    exact_rejected_before_reset,  \* the same, in the sessions before the last reset
    similar_rejected,      \* jobs rejected as similar since the last reset, by the
                           \* calls before the last operation
    n_calls,               \* calls given a batch so far
    fn_name,               \* the helper applied last, when helpers are run alone
    fn_args,               \* the arguments the helpers are run on
    fn_out,                \* what the helper returned
    cache,                 \* CompanyEnricher.cache
    lookups,               \* per name, what the first enrich_company call since
                           \* the last clear_cache returned
    enrich_call,           \* the last operation of the enricher and its outcome
    raw_data,              \* the rows of table raw_data, by id
    processed_data,        \* the rows of table processed_data, by id
    last_run               \* the last operation of the pipeline and its steps

vars ==
    <<similarity_threshold, seen_hashes, last_op, op_jobs, op_result, op_log,
      op_raised, op_groups, seen_before, accepted, prior_accepted, exact_rejected,
      exact_rejected_before_reset, similar_rejected, n_calls, fn_name, fn_args,
      fn_out, cache, lookups, enrich_call, raw_data, processed_data, last_run>>

\* The state of the DeduplicationManager and of the record of its calls.
manager_vars ==
    <<similarity_threshold, seen_hashes, last_op, op_jobs, op_result, op_log,
      op_raised, op_groups, seen_before, accepted, prior_accepted, exact_rejected,
      exact_rejected_before_reset, similar_rejected, n_calls>>

\* The record of the helpers run alone.
fn_vars == <<fn_name, fn_args, fn_out>>

\* The state of the CompanyEnricher and of the record of its calls.
enricher_vars == <<cache, lookups, enrich_call>>

\* The database and the record of the pipeline's runs.
pipeline_vars == <<raw_data, processed_data, last_run>>

\* ------------------------------------------------------- remove_duplicates

\* A pairwise test without the title-only clause.
IsDuplicatePairBothOnly(job, existing_job, threshold) ==
    /\ Exceeds(Ratio(NormalizeText(JobGet(job, "title")),
                     NormalizeText(JobGet(existing_job, "title"))), threshold)
    /\ Exceeds(Ratio(NormalizeText(JobGet(job, "company")),
                     NormalizeText(JobGet(existing_job, "company"))), threshold)

\* A pairwise test that takes a similar title alone for enough.
IsDuplicatePairTitleAlone(job, existing_job, threshold) ==
    \/ Exceeds(Ratio(NormalizeText(JobGet(job, "title")),
                     NormalizeText(JobGet(existing_job, "title"))), threshold)
    \/ Exceeds(Ratio(NormalizeText(JobGet(job, "title")),
                     NormalizeText(JobGet(existing_job, "title"))), TitleOnlyThreshold)

\* The pairwise test in the loop of _is_similar_to_existing.
IsDuplicatePair(job, existing_job, threshold) ==
    LET job_title == NormalizeText(JobGet(job, "title"))
        job_company == NormalizeText(JobGet(job, "company"))
        existing_title == NormalizeText(JobGet(existing_job, "title"))
        existing_company == NormalizeText(JobGet(existing_job, "company"))
        title_similarity == Ratio(job_title, existing_title)
        company_similarity == Ratio(job_company, existing_company)
    IN  \/ /\ Exceeds(title_similarity, threshold)
           /\ Exceeds(company_similarity, threshold)
        \/ Exceeds(title_similarity, TitleOnlyThreshold)

\* Computed once for the jobs of JobTable: the jobs whose fields can all be
\* normalized, their hashes, and the pairs (job, existing_job) that the
\* pairwise test takes for duplicates under each threshold.
Hashable == {id \in JobIds : ~HashRaises(JobTable[id])}

HashStrings == [id \in Hashable |-> HashString(JobTable[id])]

\* hashlib.md5(bytes).hexdigest(): a token standing for its input, distinct
\* inputs being taken to give distinct tokens.  The token of a hash string is
\* named after the first job of JobTable that has this hash string.
Md5Hex(bytes) ==
    IF \E id \in Hashable : HashStrings[id] = bytes
    THEN [md5 |-> SetMin({id \in Hashable : HashStrings[id] = bytes}), bytes |-> <<>>]
    ELSE [md5 |-> 0, bytes |-> bytes]

\* _generate_job_hash(job), for a job on which it does not raise.
GenerateJobHash(job) == Md5Hex(HashString(job))

HashOf == [id \in Hashable |-> GenerateJobHash(JobTable[id])]

DuplicatePairs ==
    [threshold \in Thresholds, id \in Hashable, existing \in Hashable |->
        IsDuplicatePair(JobTable[id], JobTable[existing], threshold)]

\* _is_similar_to_existing(job, existing_jobs), on job numbers.
IsSimilarToExisting(id, existing_jobs, threshold) ==
    \E k \in DOMAIN existing_jobs : DuplicatePairs[threshold, id, existing_jobs[k]]

\* The members of a set of numbers, in increasing order.
RECURSIVE SeqOf(_)
SeqOf(S) == IF S = {} THEN <<>> ELSE <<SetMin(S)>> \o SeqOf(S \ {SetMin(S)})

\* A list of existing jobs that also keeps the jobs accepted by earlier calls.
ExistingJobsWithEarlier(unique_jobs) == unique_jobs \o SeqOf(accepted)

\* The list the loop checks a job against: this call's unique_jobs.
ExistingJobs(unique_jobs) == unique_jobs

\* Putting the job in front of the list.
AcceptJobInFront(unique_jobs, id) == <<id>> \o unique_jobs

\* unique_jobs.append(job)
AcceptJob(unique_jobs, id) == Append(unique_jobs, id)

\* Forgetting to record the hash.
SkipAddHash(seen, job_hash) == seen

\* self.seen_hashes.add(job_hash)
AddHash(seen, job_hash) == seen \cup {job_hash}

\* Recording the hash of a job rejected for similarity as well.
RegisterSimilar(seen, job_hash) == seen \cup {job_hash}

\* The similar branch leaves seen_hashes alone.
SeenAfterSimilar(seen, job_hash) == seen

\* The loop of remove_duplicates from position i on.  It stops where
\* _generate_job_hash raises, with seen_hashes as changed so far.
RECURSIVE DedupLoop(_, _, _, _, _, _)
DedupLoop(jobs, i, unique_jobs, seen, log, threshold) ==
    IF i > Len(jobs)
    THEN [raised |-> FALSE, unique_jobs |-> unique_jobs, seen |-> seen, log |-> log]
    ELSE LET id == jobs[i]
         IN  IF id \notin Hashable
             THEN [raised |-> TRUE, unique_jobs |-> unique_jobs, seen |-> seen,
                   log |-> log]
             ELSE LET job_hash == HashOf[id]
                  IN  IF job_hash \in seen
                      THEN DedupLoop(jobs, i + 1, unique_jobs, seen,
                                     Append(log, "exact"), threshold)
                      ELSE IF IsSimilarToExisting(id, ExistingJobs(unique_jobs),
                                                  threshold)
                      THEN DedupLoop(jobs, i + 1, unique_jobs,
                                     SeenAfterSimilar(seen, job_hash),
                                     Append(log, "similar"), threshold)
                      ELSE DedupLoop(jobs, i + 1, AcceptJob(unique_jobs, id),
                                     AddHash(seen, job_hash),
                                     Append(log, "unique"), threshold)

\* Returning what the loop had kept when it failed.
FallbackToKept(jobs, unique_jobs) == unique_jobs

\* "return jobs" of the except branch.
FallbackResult(jobs, unique_jobs) == jobs

\* The positions of the batch whose log entry is verdict.
LoggedAs(jobs, log, verdict) == {jobs[i] : i \in {k \in DOMAIN log : log[k] = verdict}}

\* The jobs rejected as similar since the last reset, the last operation's
\* included.
SimilarRejectedSoFar == similar_rejected \cup LoggedAs(op_jobs, op_log, "similar")

\* remove_duplicates(jobs), as far as the manager goes.
ManagerRemoveDuplicates(jobs) ==
    LET run == DedupLoop(jobs, 1, <<>>, seen_hashes, <<>>, similarity_threshold)
    IN  /\ n_calls < MaxCalls
        /\ n_calls' = n_calls + 1
        /\ last_op' = "remove_duplicates"
        /\ op_jobs' = jobs
        /\ op_raised' = run.raised
        /\ op_result' = IF run.raised THEN FallbackResult(jobs, run.unique_jobs)
                        ELSE run.unique_jobs
        /\ op_log' = run.log
        /\ op_groups' = <<>>
        /\ seen_before' = seen_hashes
        /\ seen_hashes' = run.seen
        /\ prior_accepted' = accepted
        /\ accepted' = accepted \cup Range(run.unique_jobs)
        /\ exact_rejected' = exact_rejected \cup LoggedAs(jobs, run.log, "exact")
        /\ similar_rejected' = SimilarRejectedSoFar
        /\ UNCHANGED <<similarity_threshold, exact_rejected_before_reset>>

RemoveDuplicates(jobs) ==
    /\ ManagerRemoveDuplicates(jobs)
    /\ UNCHANGED <<fn_vars, enricher_vars, pipeline_vars>>

\* ---------------------------------------------------- get_duplicate_groups

\* _is_similar_to_existing raises when a title or a company it reads cannot be
\* normalized.
SimilarRaises(other_job, job) ==
    \E key \in {"title", "company"} :
        NormalizeRaises(JobGet(other_job, key)) \/ NormalizeRaises(JobGet(job, key))

\* Computed once: the jobs on which a comparison raises.
Comparable == {id \in JobIds : ~SimilarRaises(JobTable[id], JobTable[id])}

\* A comparison of the candidate with every job the group holds so far.
GroupMembers(jobs, seed, group) == [k \in 1..Len(group) |-> jobs[group[k]]]

\* "[job]": the candidate is compared with the seed of the group alone.
GroupAnchor(jobs, seed, group) == <<jobs[seed]>>

\* The inner loop: the later positions j, not yet processed, similar to the seed.
RECURSIVE GroupLoop(_, _, _, _, _, _)
GroupLoop(jobs, seed, j, group, processed, threshold) ==
    IF j > Len(jobs)
    THEN [raised |-> FALSE, group |-> group, processed |-> processed]
    ELSE IF j \in processed
    THEN GroupLoop(jobs, seed, j + 1, group, processed, threshold)
    ELSE IF jobs[j] \notin Comparable \/ jobs[seed] \notin Comparable
    THEN [raised |-> TRUE, group |-> group, processed |-> processed]
    ELSE IF IsSimilarToExisting(jobs[j], GroupAnchor(jobs, seed, group), threshold)
    THEN GroupLoop(jobs, seed, j + 1, Append(group, j), processed \cup {j}, threshold)
    ELSE GroupLoop(jobs, seed, j + 1, group, processed, threshold)

\* Keeping every group, the seed alone included.
KeepEveryGroup(groups, group) == Append(groups, group)

\* "if len(group) > 1: duplicate_groups.append(group)"
KeepGroup(groups, group) == IF Len(group) > 1 THEN Append(groups, group) ELSE groups

\* Starting with the positions whose hash seen_hashes holds marked as processed.
ProcessedFromSeen(jobs) ==
    {i \in DOMAIN jobs : jobs[i] \in Hashable /\ HashOf[jobs[i]] \in seen_hashes}

\* "processed_indices = set()"
InitialProcessed(jobs) == {}

\* The outer loop from position i on; groups hold positions of the batch.
RECURSIVE GroupsLoop(_, _, _, _, _)
GroupsLoop(jobs, i, groups, processed, threshold) ==
    IF i > Len(jobs) THEN [raised |-> FALSE, groups |-> groups]
    ELSE IF i \in processed
    THEN GroupsLoop(jobs, i + 1, groups, processed, threshold)
    ELSE LET inner == GroupLoop(jobs, i, i + 1, <<i>>, processed \cup {i}, threshold)
         IN  IF inner.raised THEN [raised |-> TRUE, groups |-> groups]
             ELSE GroupsLoop(jobs, i + 1, KeepGroup(groups, inner.group),
                             inner.processed, threshold)

GetDuplicateGroups(jobs) ==
    LET run == GroupsLoop(jobs, 1, <<>>, InitialProcessed(jobs), similarity_threshold)
    IN  /\ n_calls < MaxCalls
        /\ n_calls' = n_calls + 1
        /\ last_op' = "get_duplicate_groups"
        /\ op_jobs' = jobs
        /\ op_raised' = run.raised
        /\ op_groups' = IF run.raised THEN <<>> ELSE run.groups
        /\ op_result' = <<>>
        /\ op_log' = <<>>
        /\ seen_before' = seen_hashes
        /\ prior_accepted' = accepted
        /\ similar_rejected' = SimilarRejectedSoFar
        /\ UNCHANGED <<similarity_threshold, seen_hashes, accepted, exact_rejected,
                       exact_rejected_before_reset>>
        /\ UNCHANGED <<fn_vars, enricher_vars, pipeline_vars>>

\* ------------------------------------------------------------ reset_hashes

\* A reset that clears nothing.
KeepHashes(seen) == seen

\* self.seen_hashes.clear()
ClearHashes(seen) == {}

ResetHashes ==
    /\ last_op' = "reset_hashes"
    /\ seen_hashes' = ClearHashes(seen_hashes)
    /\ op_jobs' = <<>>
    /\ op_result' = <<>>
    /\ op_log' = <<>>
    /\ op_raised' = FALSE
    /\ op_groups' = <<>>
    /\ seen_before' = seen_hashes
    /\ accepted' = {}
    /\ prior_accepted' = accepted
    /\ exact_rejected' = {}
    /\ exact_rejected_before_reset' = exact_rejected_before_reset \cup exact_rejected
    /\ similar_rejected' = {}
    /\ UNCHANGED <<similarity_threshold, n_calls>>
    /\ UNCHANGED <<fn_vars, enricher_vars, pipeline_vars>>

\* ----------------------------------------------------------- specification

\* No helper has been run alone.
NoFunctionRun ==
    /\ fn_name = "none"
    /\ fn_args = <<>>
    /\ fn_out = <<>>

\* CompanyEnricher(): self.cache = {}
EmptyCache == [company_name \in {} |-> {}]

\* No operation of the enricher has run.
NoEnrichCall ==
    [op |-> "init", name |-> Absent,
     result |-> [name |-> Absent, sources |-> <<>>, page |-> <<>>, error |-> FALSE],
     requests |-> 0,
     exhausted |-> FALSE, raised |-> FALSE, looked_up_before |-> FALSE]

NewEnricher ==
    /\ cache = EmptyCache
    /\ lookups = EmptyCache
    /\ enrich_call = NoEnrichCall

\* No operation of the pipeline has run.
NoRun ==
    [op |-> "init", fetch_status |-> "none", stored_id |-> 0,
     clean_status |-> "none", cleaned_id |-> 0, filters |-> "none",
     fallback |-> FALSE, result |-> FALSE]

\* A database file that has just been created, and a pipeline on it.
NewPipeline ==
    /\ raw_data = <<>>
    /\ processed_data = <<>>
    /\ last_run = NoRun

\* DeduplicationManager(similarity_threshold)
NewManager(threshold) ==
    /\ similarity_threshold = threshold
    /\ seen_hashes = {}
    /\ last_op = "init"
    /\ op_jobs = <<>>
    /\ op_result = <<>>
    /\ op_log = <<>>
    /\ op_raised = FALSE
    /\ op_groups = <<>>
    /\ seen_before = {}
    /\ accepted = {}
    /\ prior_accepted = {}
    /\ exact_rejected = {}
    /\ exact_rejected_before_reset = {}
    /\ similar_rejected = {}
    /\ n_calls = 0

Init ==
    /\ \E threshold \in Thresholds : NewManager(threshold)
    /\ NewEnricher
    /\ NewPipeline
    /\ NoFunctionRun

Next ==
    \/ \E jobs \in Batches : RemoveDuplicates(jobs)
    \/ \E jobs \in Batches : GetDuplicateGroups(jobs)
    \/ ResetHashes

Spec == Init /\ [][Next]_vars

\* The same manager with longer batches for get_duplicate_groups.
NextGroups ==
    \/ \E jobs \in Batches : RemoveDuplicates(jobs)
    \/ \E jobs \in GroupBatches : GetDuplicateGroups(jobs)
    \/ ResetHashes

SpecGroups == Init /\ [][NextGroups]_vars

\* The same manager given jobs with long descriptions.
NextLong ==
    \/ \E jobs \in LongBatches : RemoveDuplicates(jobs)
    \/ ResetHashes

SpecLong == Init /\ [][NextLong]_vars

\* ------------------------------------------------- _normalize_text alone

\* Characters of the texts: letters that spell stop words ("a", "an") and
\* words that are none ("n", "na"), an upper-case letter, both kinds of
\* whitespace and a punctuation mark.
TextAlphabet == {"a", "n", "A", " ", "\t", "."}

Texts == UNION {[1..n -> TextAlphabet] : n \in 0..MaxTextLen}

\* What _normalize_text is given: a string, or None.
NormalizeInputs == {Str(text) : text \in Texts} \cup {NoneValue}

InitNormalize ==
    /\ NewManager(DefaultThreshold)
    /\ NewEnricher
    /\ NewPipeline
    /\ fn_name = "none"
    /\ fn_args \in NormalizeInputs
    /\ fn_out = <<>>

\* self._normalize_text(text), on the input first and then on its own result.
NormalizeTextCall ==
    /\ Len(fn_out) < MaxNormalizeCalls
    /\ fn_name' = "_normalize_text"
    /\ fn_out' = Append(fn_out, NormalizeText(IF fn_out = <<>> THEN fn_args
                                              ELSE Str(fn_out[Len(fn_out)])))
    /\ UNCHANGED fn_args
    /\ UNCHANGED <<manager_vars, enricher_vars, pipeline_vars>>

NextNormalize == NormalizeTextCall

SpecNormalize == InitNormalize /\ [][NextNormalize]_vars

\* ---------------------------------------------- the similarity ratio alone

\* Characters of the compared strings: two letters that spell no stop word,
\* and the space that separates words.
RatioAlphabet == {"x", "y", " "}

\* The strings the ratio is taken on: results of _normalize_text.
NormalizedTexts ==
    {text \in UNION {[1..n -> RatioAlphabet] : n \in 0..MaxRatioLen} :
        NormalizeString(text) = text}

InitRatio ==
    /\ NewManager(DefaultThreshold)
    /\ NewEnricher
    /\ NewPipeline
    /\ fn_name = "none"
    /\ fn_args \in NormalizedTexts \X NormalizedTexts
    /\ fn_out = <<>>

\* SequenceMatcher(None, a, b).ratio()
RatioCall(a, b) ==
    /\ Len(fn_out) < MaxRatioCalls
    /\ fn_name' = "ratio"
    /\ fn_out' = Append(fn_out, [a |-> a, b |-> b, ratio |-> Ratio(a, b)])
    /\ UNCHANGED fn_args
    /\ UNCHANGED <<manager_vars, enricher_vars, pipeline_vars>>

\* The ratio is taken with either string of the pair as the incoming one.
NextRatio ==
    \/ RatioCall(fn_args[1], fn_args[2])
    \/ RatioCall(fn_args[2], fn_args[1])

SpecRatio == InitRatio /\ [][NextRatio]_vars

\* --------------------------------------- the helpers on one job, alone

\* The fields _generate_job_hash reads.
FieldKeys == {"title", "company", "location", "description"}

\* str.upper() and str.swapcase() on one character.
UpperChar(c) ==
    IF c \in Range(LowerCase)
    THEN UpperCase[CHOOSE i \in DOMAIN LowerCase : LowerCase[i] = c]
    ELSE c

SwapCase(c) == IF c \in Range(UpperCase) THEN LowerChar(c) ELSE UpperChar(c)

\* The text with piece put in after its first i characters.
InsertAt(text, i, piece) ==
    SubSeq(text, 1, i) \o piece \o SubSeq(text, i + 1, Len(text))

\* The texts that differ from text in the case of one letter.
CaseVariants(text) ==
    {[text EXCEPT ![i] = SwapCase(text[i])] : i \in DOMAIN text} \ {text}

\* The texts that differ from text by one punctuation mark.
PunctuationVariants(text) ==
    {InsertAt(text, i, <<mark>>) : i \in 0..Len(text), mark \in {".", ","}}

\* The texts that differ from text in the length or the kind of one run of
\* whitespace.
WhitespaceVariants(text) ==
    LET spaces == {i \in DOMAIN text : IsSpace(text[i])}
    IN  {InsertAt(text, i, <<white>>) : i \in spaces, white \in {" ", "\t"}}
            \cup ({[text EXCEPT ![i] = "\t"] : i \in spaces} \ {text})

\* The texts that differ from text by one stop word, a word of its own.
StopWordVariants(text) ==
    LET starts == {0} \cup {i \in DOMAIN text : IsSpace(text[i])}
        words == {<<"a">>, <<"t", "h", "e">>}
    IN  {InsertAt(text, i, word \o <<" ">>) : i \in starts, word \in words}
            \cup {text \o <<" ">> \o word : word \in words}

Variants(edit, text) ==
    CASE edit = "case" -> CaseVariants(text)
      [] edit = "punctuation" -> PunctuationVariants(text)
      [] edit = "whitespace" -> WhitespaceVariants(text)
      [] edit = "stop word" -> StopWordVariants(text)

Edits == {"case", "punctuation", "whitespace", "stop word"}

FieldTexts == UNION {[1..n -> TextAlphabet] : n \in 0..MaxFieldLen}

\* The job the varied field is put into: one with all four fields.
BaseJob == JobTable[6]

\* A job and the job that differs from it in one of the four fields, by one
\* edit of one kind.
InitFingerprint ==
    /\ NewManager(DefaultThreshold)
    /\ NewEnricher
    /\ NewPipeline
    /\ fn_name = "none"
    /\ \E key \in FieldKeys, edit \in Edits, text \in FieldTexts :
           \E varied \in Variants(edit, text) :
               fn_args = [key |-> key, edit |-> edit,
                          job |-> [BaseJob EXCEPT ![key] = Str(text)],
                          variant |-> [BaseJob EXCEPT ![key] = Str(varied)]]
    /\ fn_out = <<>>

\* self._generate_job_hash(job)
GenerateJobHashCall(job) ==
    /\ Len(fn_out) < MaxHelperCalls
    /\ fn_name' = "helpers"
    /\ fn_out' = Append(fn_out,
                        [fn |-> "_generate_job_hash", job |-> job,
                         raised |-> HashRaises(job),
                         hash |-> IF HashRaises(job) THEN Md5Hex(<<>>)
                                  ELSE GenerateJobHash(job)])
    /\ UNCHANGED fn_args
    /\ UNCHANGED <<manager_vars, enricher_vars, pipeline_vars>>

NextFingerprint ==
    \/ GenerateJobHashCall(fn_args.job)
    \/ GenerateJobHashCall(fn_args.variant)

SpecFingerprint == InitFingerprint /\ [][NextFingerprint]_vars

\* A job that lacks one of the four fields, and the same job with the empty
\* string in its place.
InitMissing ==
    /\ \E threshold \in Thresholds : NewManager(threshold)
    /\ NewEnricher
    /\ NewPipeline
    /\ fn_name = "none"
    /\ \E key \in FieldKeys, id \in Hashable \cap BatchJobIds :
           fn_args = [key |-> key, edit |-> "missing",
                      job |-> [JobTable[id] EXCEPT ![key] = Absent],
                      variant |-> [JobTable[id] EXCEPT ![key] = Str(<<>>)]]
    /\ fn_out = <<>>

\* self._is_similar_to_existing(job, [existing_job])
IsSimilarCall(job, existing_job) ==
    /\ Len(fn_out) < MaxHelperCalls
    /\ fn_name' = "helpers"
    /\ fn_out' = Append(fn_out,
                        [fn |-> "_is_similar_to_existing", job |-> job,
                         existing |-> existing_job,
                         raised |-> SimilarRaises(job, existing_job),
                         verdict |-> IF SimilarRaises(job, existing_job) THEN FALSE
                                     ELSE IsDuplicatePair(job, existing_job,
                                                          similarity_threshold)])
    /\ UNCHANGED fn_args
    /\ UNCHANGED <<manager_vars, enricher_vars, pipeline_vars>>

\* The helpers remove_duplicates and get_duplicate_groups call on a job, with
\* the job that lacks the field and with the one that holds "" for it, as the
\* incoming job and as the existing one.
NextMissing ==
    \/ \E job \in {fn_args.job, fn_args.variant} : GenerateJobHashCall(job)
    \/ \E job \in {fn_args.job, fn_args.variant}, id \in Hashable \cap BatchJobIds :
           IsSimilarCall(job, JobTable[id])
    \/ \E job \in {fn_args.job, fn_args.variant}, id \in Hashable \cap BatchJobIds :
           IsSimilarCall(JobTable[id], job)

SpecMissing == InitMissing /\ [][NextMissing]_vars

\* ------------------------------------ the records of the API client, alone

\* The record _normalize_job_data builds, as far as the deduplication reads
\* it: it has 'title', 'description' and 'url' and neither 'company' nor
\* 'location' (the employer is stored as 'organization').
ApiRecord(title) ==
    [title |-> title, company |-> Absent, location |-> Absent,
     description |-> BuildTools, url |-> JobUrl]

ApiTitles ==
    {SoftwareEngineeringIntern, SoftwareEngineeringInternship,
     SoftwareEngineeringInterns, DataAnalystIntern, Str(<<>>)}

\* The thresholds of the managers that compare API records: one of them
\* above the 0.95 of the title-only clause.
ApiThresholds == Thresholds \cup {99}

InitApiRecords ==
    /\ \E threshold \in ApiThresholds : NewManager(threshold)
    /\ NewEnricher
    /\ NewPipeline
    /\ fn_name = "none"
    /\ \E title \in ApiTitles, existing_title \in ApiTitles :
           fn_args = [key |-> "company", edit |-> "api records",
                      job |-> ApiRecord(title),
                      variant |-> ApiRecord(existing_title)]
    /\ fn_out = <<>>

\* Either record is the incoming one.
NextApiRecords ==
    \/ IsSimilarCall(fn_args.job, fn_args.variant)
    \/ IsSimilarCall(fn_args.variant, fn_args.job)

SpecApiRecords == InitApiRecords /\ [][NextApiRecords]_vars

\* -------------------------------------------------------- CompanyEnricher

\* The nested calls the interpreter allows a lookup before it raises
\* RecursionError, counted in calls of _get_wikipedia_info and
\* _search_wikipedia_alternative.
RecursionLimit == 4

\* What the service does with one request: "ok" is status 200 (with a search
\* result, for the search), "missing" any other status (or no search result),
\* "fails" an exception of requests.get.
Answers == {"ok", "missing", "fails"}

\* The answers of the service to the successive requests of one call.
ServiceAnswers == [1..RecursionLimit -> Answers]

\* A company name that cannot be a dictionary key.
Unhashable == [kind |-> "list", s |-> <<>>]

\* The names enrich_company is called with.
CompanyNames == {Acme, AcmeCorp, Globex, IntValue, Unhashable}

\* "return None" of a lookup, after the given number of requests.
NoInfo(requests, exhausted) ==
    [found |-> FALSE, page |-> <<>>, requests |-> requests, exhausted |-> exhausted]

\* _get_wikipedia_info(company_name) as the depth-th nested lookup, and
\* _search_wikipedia_alternative(company_name) likewise.  Each makes one
\* request; the title the search returns is taken to be the name searched.
\* A call beyond the limit raises RecursionError, which the except branch of
\* a caller turns into None.
RECURSIVE GetWikipediaInfo(_, _, _)
RECURSIVE SearchWikipediaAlternative(_, _, _)
GetWikipediaInfo(company_name, answers, depth) ==
    IF depth > RecursionLimit
    THEN NoInfo(depth - 1, TRUE)
    ELSE IF company_name.kind # "str"
    THEN NoInfo(depth - 1, FALSE)
    ELSE IF answers[depth] = "ok"
    THEN [found |-> TRUE, page |-> company_name.s, requests |-> depth,
          exhausted |-> FALSE]
    ELSE IF answers[depth] = "fails"
    THEN NoInfo(depth, FALSE)
    ELSE SearchWikipediaAlternative(company_name, answers, depth + 1)

SearchWikipediaAlternative(company_name, answers, depth) ==
    IF depth > RecursionLimit
    THEN NoInfo(depth - 1, TRUE)
    ELSE IF answers[depth] = "ok"
    THEN GetWikipediaInfo(company_name, answers, depth + 1)
    ELSE NoInfo(depth, FALSE)

\* The dictionary enrich_company builds, as far as the lookup decides it.
\* (self.llm_client is None unless the caller sets it, and
\* _get_llm_company_info returns None.)
Enrichment(company_name, wiki_info) ==
    [name |-> company_name,
     sources |-> IF wiki_info.found THEN <<"wikipedia">> ELSE <<>>,
     page |-> wiki_info.page,
     error |-> FALSE]

\* The dictionary of the except branch of enrich_company.
ErrorResult(company_name) ==
    [name |-> company_name, sources |-> <<>>, page |-> <<>>, error |-> TRUE]

\* An enricher that does not keep what it looked up.
SkipCacheStore(cache_now, company_name, enrichment) == cache_now

\* self.cache[company_name] = enrichment
CacheStore(cache_now, company_name, enrichment) ==
    [name \in DOMAIN cache_now \cup {company_name} |->
        IF name = company_name THEN enrichment ELSE cache_now[name]]

\* enrich_company(company_name) on an enricher whose cache is cache_now.
EnrichCompanyOn(cache_now, company_name, answers) ==
    IF company_name = Unhashable
    THEN [result |-> ErrorResult(company_name), cache |-> cache_now,
          requests |-> 0, exhausted |-> FALSE, raised |-> TRUE]
    ELSE IF company_name \in DOMAIN cache_now
    THEN [result |-> cache_now[company_name], cache |-> cache_now,
          requests |-> 0, exhausted |-> FALSE, raised |-> FALSE]
    ELSE LET wiki_info == GetWikipediaInfo(company_name, answers, 1)
             enrichment == Enrichment(company_name, wiki_info)
         IN  [result |-> enrichment,
              cache |-> CacheStore(cache_now, company_name, enrichment),
              requests |-> wiki_info.requests,
              exhausted |-> wiki_info.exhausted, raised |-> FALSE]

\* What the first call since the last clear_cache returned for each name.
FirstLookups(known, company_name, call) ==
    IF call.raised \/ company_name \in DOMAIN known
    THEN known
    ELSE [name \in DOMAIN known \cup {company_name} |->
            IF name = company_name THEN call.result ELSE known[name]]

EnrichCompany(company_name, answers) ==
    LET call == EnrichCompanyOn(cache, company_name, answers)
    IN  /\ cache' = call.cache
        /\ lookups' = FirstLookups(lookups, company_name, call)
        /\ enrich_call' = [op |-> "enrich_company", name |-> company_name,
                           result |-> call.result, requests |-> call.requests,
                           exhausted |-> call.exhausted, raised |-> call.raised,
                           looked_up_before |-> company_name \in DOMAIN lookups]
        /\ UNCHANGED <<manager_vars, fn_vars, pipeline_vars>>

\* self.cache.clear()
ClearCache ==
    /\ cache' = EmptyCache
    /\ lookups' = EmptyCache
    /\ enrich_call' = [NoEnrichCall EXCEPT !.op = "clear_cache"]
    /\ UNCHANGED <<manager_vars, fn_vars, pipeline_vars>>

InitEnrich ==
    /\ NewManager(DefaultThreshold)
    /\ NoFunctionRun
    /\ NewEnricher
    /\ NewPipeline

NextEnrich ==
    \/ \E company_name \in CompanyNames, answers \in ServiceAnswers :
           EnrichCompany(company_name, answers)
    \/ ClearCache

SpecEnrich == InitEnrich /\ [][NextEnrich]_vars

\* ----------------------------------------------------------- CleanerAgent

\* The rows table raw_data may hold.
MaxRecords == 2

\* The filters clean_data is given.  A filter without a key stands for None
\* and for the empty dictionary, which "if filters" both skip.
NoKey == [present |-> FALSE, words |-> <<>>, text |-> <<>>, number |-> 0]

NoFilters == [name |-> "none", keywords |-> NoKey, location |-> NoKey, min_salary |-> NoKey]

FilterSets ==
    {NoFilters,
     [NoFilters EXCEPT !.name = "keywords",
                       !.keywords.present = TRUE,
                       !.keywords.words = << <<"I", "n", "t", "e", "r", "n">> >>],
     [NoFilters EXCEPT !.name = "location",
                       !.location.present = TRUE,
                       !.location.text = <<"r", "e", "m", "o", "t", "e">>],
     [NoFilters EXCEPT !.name = "min_salary",
                       !.min_salary.present = TRUE,
                       !.min_salary.number = 1],
     [NoFilters EXCEPT !.name = "keywords and location",
                       !.keywords.present = TRUE,
                       !.keywords.words = << <<"h", "o", "m", "e">>,
                                             <<"d", "a", "t", "a">> >>,
                       !.location.present = TRUE,
                       !.location.text = <<"R", "e", "m">>]}

\* "if filters": a dictionary with a key.
FiltersGiven(filters) ==
    filters.keywords.present \/ filters.location.present \/ filters.min_salary.present

\* piece in text
Contains(text, piece) ==
    \E i \in 1..(Len(text) - Len(piece) + 1) : SubSeq(text, i, i + Len(piece) - 1) = piece

\* f"{value}" of a field read with the default ''.
Format(v) ==
    CASE v.kind = "str" -> v.s
      [] v.kind = "absent" -> <<>>
      [] v.kind = "none" -> <<"N", "o", "n", "e">>
      [] v.kind = "int" -> <<"1", "2", "3">>

\* f"{job.get('title', '')} {job.get('description', '')}".lower()
JobText(job) == LowerText(Format(job.title) \o <<" ">> \o Format(job.description))

\* job.get('salary', 0): no job of the table has a salary.
Salary(job) == 0

\* What the loop of _apply_filters does with one job: it keeps it, drops it
\* (continue), or raises on job.get('location', '').lower().
FilterVerdict(job, filters) ==
    IF /\ filters.keywords.present
       /\ ~\E k \in DOMAIN filters.keywords.words :
              Contains(JobText(job), LowerText(filters.keywords.words[k]))
    THEN "drop"
    ELSE IF filters.location.present /\ JobGet(job, "location").kind # "str"
    THEN "raise"
    ELSE IF /\ filters.location.present
            /\ ~Contains(LowerText(JobGet(job, "location").s),
                         LowerText(filters.location.text))
    THEN "drop"
    ELSE IF filters.min_salary.present /\ Salary(job) < filters.min_salary.number
    THEN "drop"
    ELSE "keep"

\* _apply_filters(jobs, filters)
ApplyFilters(jobs, filters) ==
    [raised |-> \E i \in DOMAIN jobs : FilterVerdict(JobTable[jobs[i]], filters) = "raise",
     jobs |-> SelectSeq(jobs, LAMBDA id : FilterVerdict(JobTable[id], filters) = "keep")]

NoExperienceWords == <<"n", "o", " ", "e", "x", "p", "e", "r", "i", "e", "n", "c", "e">>

ImmediateStartWords ==
    <<"i", "m", "m", "e", "d", "i", "a", "t", "e", " ", "s", "t", "a", "r", "t">>

\* What the loop of _detect_fake_jobs does with one job.  "and" reads the
\* description only when the title has 'work from home'.
FakeVerdict(job) ==
    LET title == JobGet(job, "title")
        description == JobGet(job, "description")
    IN  IF title.kind # "str"
        THEN "raise"
        ELSE IF ~Contains(LowerText(title.s), LowerText(WorkFromHome.s))
        THEN "keep"
        ELSE IF description.kind # "str"
        THEN "raise"
        ELSE IF /\ Contains(LowerText(description.s), NoExperienceWords)
                /\ Contains(LowerText(description.s), ImmediateStartWords)
        THEN "drop"
        ELSE "keep"

\* _detect_fake_jobs(jobs)
DetectFakeJobs(jobs) ==
    [raised |-> \E i \in DOMAIN jobs : FakeVerdict(JobTable[jobs[i]]) = "raise",
     jobs |-> SelectSeq(jobs, LAMBDA id : FakeVerdict(JobTable[id]) = "keep")]

\* "if company_name": the job has a company to look up.
HasCompany(job) ==
    JobGet(job, "company").kind # "none" /\ ~IsFalsy(JobGet(job, "company"))

\* A loop that appends only the jobs whose company is a name to look up.
EnrichedWithCompany(jobs) ==
    SelectSeq(jobs, LAMBDA id : /\ HasCompany(JobTable[id])
                                /\ JobGet(JobTable[id], "company").kind = "str")

\* The list _enrich_companies returns: enriched.append(job) for every job.
EnrichedJobs(jobs) == jobs

\* The enricher after the loop of _enrich_companies from position i on.
RECURSIVE EnrichLoop(_, _, _, _, _)
EnrichLoop(jobs, i, cache_now, known, answers) ==
    IF i > Len(jobs)
    THEN [cache |-> cache_now, lookups |-> known]
    ELSE LET company_name == JobGet(JobTable[jobs[i]], "company")
         IN  IF ~HasCompany(JobTable[jobs[i]])
             THEN EnrichLoop(jobs, i + 1, cache_now, known, answers)
             ELSE LET call == EnrichCompanyOn(cache_now, company_name, answers)
                  IN  EnrichLoop(jobs, i + 1, call.cache,
                                 FirstLookups(known, company_name, call), answers)

\* The answers of the service during one clean_data run.
CleanerAnswers == {[depth \in 1..RecursionLimit |-> "ok"],
                   [depth \in 1..RecursionLimit |-> "missing"]}

\* unique_jobs: what remove_duplicates returned for the run of its loop.
UniqueJobs(jobs, run) ==
    IF run.raised THEN FallbackResult(jobs, run.unique_jobs) ELSE run.unique_jobs

\* filtered_jobs: "if filters" applies them, otherwise the list passes whole.
FilteredJobs(unique_jobs, filters) ==
    IF FiltersGiven(filters)
    THEN ApplyFilters(unique_jobs, filters)
    ELSE [raised |-> FALSE, jobs |-> unique_jobs]

\* What clean_data returns and leaves once its lists are known: the except
\* branch if a step raised, otherwise the row it stores and the enricher
\* after _enrich_companies.
CleanLists(raw_data_id, jobs, fallback, unique_jobs, filtered, verified, answers) ==
    IF filtered.raised \/ verified.raised
    THEN [status |-> "error", dedup |-> TRUE, fallback |-> fallback, jobs |-> jobs,
          row |-> <<>>, cache |-> cache, lookups |-> lookups]
    ELSE [status |-> "success", dedup |-> TRUE, fallback |-> fallback, jobs |-> jobs,
          row |-> [raw_data_id |-> raw_data_id,
                   jobs |-> EnrichedJobs(verified.jobs),
                   metadata |-> [original_count |-> Len(jobs),
                                 after_dedup |-> Len(unique_jobs),
                                 after_filtering |-> Len(filtered.jobs),
                                 after_verification |-> Len(verified.jobs),
                                 final_count |-> Len(EnrichedJobs(verified.jobs))]],
          cache |-> EnrichLoop(verified.jobs, 1, cache, lookups, answers).cache,
          lookups |-> EnrichLoop(verified.jobs, 1, cache, lookups, answers).lookups]

\* Steps 1 to 3 of clean_data on the jobs of the row, run being the loop of
\* remove_duplicates on them.
CleanJobs(raw_data_id, jobs, run, filters, answers) ==
    CleanLists(raw_data_id, jobs, run.raised, UniqueJobs(jobs, run),
               FilteredJobs(UniqueJobs(jobs, run), filters),
               DetectFakeJobs(FilteredJobs(UniqueJobs(jobs, run), filters).jobs),
               answers)

\* clean_data(raw_data_id, filters) on the rows records of table raw_data: the
\* status it returns, the batch it hands to remove_duplicates if it gets as
\* far, the processed_data row it stores, and the enricher it leaves.
CleanDataOn(records, raw_data_id, filters, answers) ==
    IF raw_data_id \notin DOMAIN records
    THEN [status |-> "error", dedup |-> FALSE, fallback |-> FALSE, jobs |-> <<>>,
          row |-> <<>>, cache |-> cache, lookups |-> lookups]
    ELSE CleanJobs(raw_data_id, records[raw_data_id].jobs,
                   DedupLoop(records[raw_data_id].jobs, 1, <<>>, seen_hashes, <<>>,
                             similarity_threshold),
                   filters, answers)

\* What a clean_data run with outcome out does to the manager, the enricher
\* and table processed_data.
CleanStep(out) ==
    /\ IF out.dedup THEN ManagerRemoveDuplicates(out.jobs) ELSE UNCHANGED manager_vars
    /\ cache' = out.cache
    /\ lookups' = out.lookups
    /\ processed_data' = IF out.status = "success"
                         THEN Append(processed_data, out.row)
                         ELSE processed_data
    /\ UNCHANGED <<enrich_call, fn_vars>>

CleanData(raw_data_id, filters, answers) ==
    \E out \in {CleanDataOn(raw_data, raw_data_id, filters, answers)} :
        /\ CleanStep(out)
        /\ last_run' = [op |-> "clean_data", fetch_status |-> "none",
                        stored_id |-> 0, clean_status |-> out.status,
                        cleaned_id |-> raw_data_id, filters |-> filters.name,
                        fallback |-> out.fallback,
                        result |-> out.status = "success"]
        /\ UNCHANGED raw_data

\* db_manager.store_raw_data({'jobs': jobs})
StoreRawData(jobs) ==
    /\ Len(raw_data) < MaxRecords
    /\ raw_data' = Append(raw_data, [jobs |-> jobs])
    /\ last_run' = [NoRun EXCEPT !.op = "store_raw_data", !.stored_id = Len(raw_data) + 1]
    /\ UNCHANGED <<manager_vars, enricher_vars, fn_vars, processed_data>>

\* ------------------------------------------------------- InternshipPipeline

\* What the job board answers to the request of search_jobs: a status other
\* than 200, or a list of so many jobs that pass the security filter.
ApiAnswers == {[status |-> "fails", jobs |-> 0], [status |-> "ok", jobs |-> 0],
               [status |-> "ok", jobs |-> 1]}

\* search_jobs raises on a status other than 200, and on every job of the
\* answer: _normalize_job_data calls self._extract_salary_from_job(job), which
\* JobBoardAPIClient does not define.
SearchJobsRaises(api) == api.status # "ok" \/ api.jobs > 0

\* fetch_internships: the status it reports and the jobs of the row it stores.
FetchInternships(api) ==
    IF SearchJobsRaises(api)
    THEN [status |-> "error", jobs |-> <<>>]
    ELSE [status |-> "success", jobs |-> <<>>]

\* fetch_result.get('raw_data_id', 1): fetch_result has no such key.
RawDataId(fetch_result) == 1

\* The steps run_daily_pipeline and run_custom_search share: fetch, return
\* False unless it succeeded, clean, return whether that succeeded.
RunPipeline(op, api, answers) ==
    \E fetch_result \in {FetchInternships(api)} :
        \/ /\ fetch_result.status # "success"
           /\ last_run' = [NoRun EXCEPT !.op = op, !.fetch_status = "error"]
           /\ UNCHANGED <<manager_vars, enricher_vars, fn_vars, raw_data,
                          processed_data>>
        \/ /\ fetch_result.status = "success"
           /\ Len(raw_data) < MaxRecords
           /\ raw_data' = Append(raw_data, [jobs |-> fetch_result.jobs])
           /\ \E raw_data_id \in {RawDataId(fetch_result)} :
                  \E out \in {CleanDataOn(Append(raw_data, [jobs |-> fetch_result.jobs]),
                                           raw_data_id, NoFilters, answers)} :
                      /\ CleanStep(out)
                      /\ last_run' = [op |-> op, fetch_status |-> "success",
                                      stored_id |-> Len(raw_data) + 1,
                                      clean_status |-> out.status,
                                      cleaned_id |-> raw_data_id,
                                      filters |-> NoFilters.name,
                                      fallback |-> out.fallback,
                                      result |-> out.status = "success"]

RunDailyPipeline(api, answers) == RunPipeline("run_daily_pipeline", api, answers)

RunCustomSearch(api, answers) == RunPipeline("run_custom_search", api, answers)

InitPipeline ==
    /\ NewManager(DefaultThreshold)
    /\ NoFunctionRun
    /\ NewEnricher
    /\ NewPipeline

NextPipeline ==
    \/ \E api \in ApiAnswers, answers \in CleanerAnswers : RunDailyPipeline(api, answers)
    \/ \E api \in ApiAnswers, answers \in CleanerAnswers : RunCustomSearch(api, answers)
    \/ \E jobs \in CleanerBatches : StoreRawData(jobs)
    \/ \E raw_data_id \in 1..(MaxRecords + 1), filters \in FilterSets,
          answers \in CleanerAnswers :
           CleanData(raw_data_id, filters, answers)

SpecPipeline == InitPipeline /\ [][NextPipeline]_vars

\* ----------------------------------------------------------------- claims

\* Computed once: the similarities _is_similar_to_existing takes between the
\* normalized titles and companies of an incoming job and an existing one.
TitleSimilarity ==
    [id \in Hashable, existing \in Hashable |->
        Ratio(NormalizeText(JobGet(JobTable[id], "title")),
              NormalizeText(JobGet(JobTable[existing], "title")))]

CompanySimilarity ==
    [id \in Hashable, existing \in Hashable |->
        Ratio(NormalizeText(JobGet(JobTable[id], "company")),
              NormalizeText(JobGet(JobTable[existing], "company")))]

\* Rule 4.4.1 for an incoming job and an existing one.
SimilarEnough(id, existing) ==
    \/ /\ TitleSimilarity[id, existing].num * 100
              > similarity_threshold * TitleSimilarity[id, existing].den
       /\ CompanySimilarity[id, existing].num * 100
              > similarity_threshold * CompanySimilarity[id, existing].den
    \/ TitleSimilarity[id, existing].num * 100 > 95 * TitleSimilarity[id, existing].den

CompletedCall == last_op = "remove_duplicates" /\ ~op_raised

\* The positions of the last batch whose job the call returned: a returned
\* job stands at the first position that holds it.
AcceptedPositions ==
    {i \in DOMAIN op_jobs :
        /\ op_jobs[i] \in Range(op_result)
        /\ \A k \in 1..(i - 1) : op_jobs[k] # op_jobs[i]}

AcceptedBefore(i) == {k \in AcceptedPositions : k < i}

\* seen_hashes when the loop reached position i of the last batch.
SeenAt(i) == seen_before \cup {HashOf[op_jobs[k]] : k \in AcceptedBefore(i)}

HashesOf(ids) == {HashOf[id] : id \in ids}

RECURSIVE IsSubsequence(_, _)
IsSubsequence(sub, full) ==
    IF sub = <<>> THEN TRUE
    ELSE IF full = <<>> THEN FALSE
    ELSE IF Head(sub) = Head(full) THEN IsSubsequence(Tail(sub), Tail(full))
    ELSE IsSubsequence(sub, Tail(full))

\* C1: the list remove_duplicates returns is a subsequence of its input (the
\* same jobs, in the same order, each position used at most once), so it is
\* no longer than the input; also when the call falls back to the input.
C1_ResultIsSubsequence ==
    last_op = "remove_duplicates" =>
        /\ IsSubsequence(op_result, op_jobs)
        /\ Len(op_result) <= Len(op_jobs)

\* A call that kept some jobs of its batch and dropped others.
C1_Witness ==
    /\ CompletedCall
    /\ seen_before # {}
    /\ Len(op_result) >= 1
    /\ Len(op_result) < Len(op_jobs)

\* C2: a call that does not fail returns no job whose fingerprint is that of a
\* job accepted by an earlier call since the last reset, and no two jobs with
\* the same fingerprint.
C2_AcceptedFingerprintSuppressed ==
    CompletedCall =>
        /\ \A k \in DOMAIN op_result : HashOf[op_result[k]] \notin HashesOf(prior_accepted)
        /\ \A k, l \in DOMAIN op_result :
               k # l => HashOf[op_result[k]] # HashOf[op_result[l]]

\* A job is dropped whose fingerprint was accepted by an earlier call, while
\* another job of the same batch is kept.
C2_Witness ==
    /\ CompletedCall
    /\ Len(op_result) >= 1
    /\ \E i \in DOMAIN op_jobs :
           /\ HashOf[op_jobs[i]] \in HashesOf(prior_accepted)
           /\ op_jobs[i] \notin prior_accepted
           /\ op_jobs[i] \notin Range(op_result)

\* C3: in a call that does not fail, a job whose fingerprint is not in
\* seen_hashes when the loop reaches it is rejected if and only if rule 4.4.1
\* holds between it and some job accepted earlier in the same call.
C3_RejectedIffSimilarToAccepted ==
    CompletedCall =>
        \A i \in DOMAIN op_jobs :
            HashOf[op_jobs[i]] \notin SeenAt(i) =>
                (i \notin AcceptedPositions
                    <=> \E k \in AcceptedBefore(i) : SimilarEnough(op_jobs[i], op_jobs[k]))

\* A job with a new fingerprint is rejected for its title alone (similarity
\* above 0.95), the company similarity being no more than the threshold.
C3_Witness ==
    /\ CompletedCall
    /\ \E i \in DOMAIN op_jobs :
           /\ HashOf[op_jobs[i]] \notin SeenAt(i)
           /\ i \notin AcceptedPositions
           /\ \A k \in AcceptedBefore(i) :
                  CompanySimilarity[op_jobs[i], op_jobs[k]].num * 100
                      <= similarity_threshold * CompanySimilarity[op_jobs[i], op_jobs[k]].den

\* C4: a job with a new fingerprint that is similar enough to no job accepted
\* earlier in the current call is accepted, also when it is similar enough to
\* a job accepted by an earlier call.
C4_EarlierCallsNotCompared ==
    CompletedCall =>
        \A i \in DOMAIN op_jobs :
            ( /\ HashOf[op_jobs[i]] \notin SeenAt(i)
              /\ \A k \in AcceptedBefore(i) : ~SimilarEnough(op_jobs[i], op_jobs[k])
              /\ \E p \in prior_accepted : SimilarEnough(op_jobs[i], p) )
            => i \in AcceptedPositions

\* A job is accepted that is similar enough to a job accepted by an earlier call.
C4_Witness ==
    /\ CompletedCall
    /\ \E i \in AcceptedPositions :
           \E p \in prior_accepted : SimilarEnough(op_jobs[i], p)

\* C5: after a call that does not fail, seen_hashes is its value before the
\* call together with the fingerprints of the jobs returned; and no call
\* takes a fingerprint out of seen_hashes.
C5_SeenHashesGrowByAccepted ==
    /\ CompletedCall => seen_hashes = seen_before \cup HashesOf(Range(op_result))
    /\ last_op \in {"remove_duplicates", "get_duplicate_groups"} =>
           seen_before \subseteq seen_hashes

\* A job was rejected for similarity and its fingerprint is not in seen_hashes,
\* while the fingerprint of an accepted job of the batch was added.
C5_Witness ==
    /\ CompletedCall
    /\ seen_hashes # seen_before
    /\ \E i \in DOMAIN op_log :
           op_log[i] = "similar" /\ HashOf[op_jobs[i]] \notin seen_hashes

\* C6: every fingerprint in seen_hashes is the fingerprint of a job submitted
\* since the last reset that was accepted or rejected as an exact duplicate.
C6_SeenHashesJustified ==
    \A h \in seen_hashes : \E id \in accepted \cup exact_rejected : HashOf[id] = h

\* After a reset, a call has filled seen_hashes again and has rejected jobs
\* both as exact duplicates and for similarity.
C6_Witness ==
    /\ last_op = "remove_duplicates"
    /\ exact_rejected_before_reset # {}
    /\ seen_hashes # {}
    /\ \E i \in DOMAIN op_log : op_log[i] = "similar"

\* C7: when a job of the batch cannot be hashed, remove_duplicates returns its
\* input list, whole and in order, instead of raising.
C7_FaultReturnsInput ==
    ( /\ last_op = "remove_duplicates"
      /\ \E i \in DOMAIN op_jobs : HashRaises(JobTable[op_jobs[i]]) )
    => op_result = op_jobs

\* The call failed on a later job after it had accepted an earlier one.
C7_Witness ==
    /\ last_op = "remove_duplicates"
    /\ op_raised
    /\ seen_hashes # seen_before
    /\ Len(op_jobs) > 1

\* C8: reset_hashes leaves seen_hashes empty; and a job rejected as an exact
\* duplicate before the reset is returned by a call that starts with
\* seen_hashes empty, unless a job similar enough to it precedes it in the batch.
C8_ResetForgets ==
    /\ last_op = "reset_hashes" => seen_hashes = {}
    /\ (last_op = "remove_duplicates" /\ seen_before = {}) =>
           \A i \in DOMAIN op_jobs :
               ( /\ op_jobs[i] \in exact_rejected_before_reset
                 /\ \A k \in 1..(i - 1) :
                        op_jobs[k] \in Hashable => ~SimilarEnough(op_jobs[i], op_jobs[k]) )
               => op_jobs[i] \in Range(op_result)

\* A job rejected as an exact duplicate before a reset is accepted after it.
C8_Witness ==
    /\ CompletedCall
    /\ seen_before = {}
    /\ \E i \in AcceptedPositions : op_jobs[i] \in exact_rejected_before_reset

\* Two job dictionaries with the same title, company, location and description.
SameFourFields(id, other) ==
    \A key \in {"title", "company", "location", "description"} :
        JobTable[id][key] = JobTable[other][key]

\* C9: two different jobs with the same title, company, location and
\* description, submitted together while seen_hashes is empty, have the same
\* fingerprint: the first is kept and the second is rejected as an exact duplicate.
C9_OtherFieldsIgnored ==
    ( /\ CompletedCall
      /\ seen_before = {}
      /\ Len(op_jobs) = 2
      /\ op_jobs[1] # op_jobs[2]
      /\ SameFourFields(op_jobs[1], op_jobs[2]) )
    => /\ op_result = <<op_jobs[1]>>
       /\ op_log = <<"unique", "exact">>

\* Such a pair, differing in the url, was submitted.
C9_Witness ==
    /\ CompletedCall
    /\ seen_before = {}
    /\ Len(op_jobs) = 2
    /\ op_jobs[1] # op_jobs[2]
    /\ SameFourFields(op_jobs[1], op_jobs[2])
    /\ JobTable[op_jobs[1]].url # JobTable[op_jobs[2]].url

\* The batch of the fuzzy-duplicate example: "Software Engineering Intern" at
\* "Acme Corp", then "Software Engineering Internship" at "Acme Corporation".
FuzzyExample == <<1, 2>>

FuzzyExampleRun ==
    /\ CompletedCall
    /\ similarity_threshold = DefaultThreshold
    /\ seen_before = {}
    /\ op_jobs = FuzzyExample

\* C10, as stated: with threshold 0.8 on a fresh instance the second job of
\* the example is rejected.
C10_Original == FuzzyExampleRun => op_result = <<1>>

\* C10, amended: with threshold 0.8 on a fresh instance both jobs of the
\* example are kept: the title similarity (54/58) is above 0.8 but not above
\* 0.95, and the company similarity (18/25) is not above 0.8.
C10_FuzzyExampleKeepsBoth ==
    FuzzyExampleRun =>
        /\ op_result = <<1, 2>>
        /\ TitleSimilarity[2, 1] = [num |-> 54, den |-> 58]
        /\ CompanySimilarity[2, 1] = [num |-> 18, den |-> 25]

C10_Witness == FuzzyExampleRun /\ op_log = <<"unique", "unique">>

\* ------------------------------------------- claims on get_duplicate_groups

GroupsCall == last_op = "get_duplicate_groups" /\ ~op_raised

\* The positions the groups before group g hold.
GroupedBefore(g) == UNION {Range(op_groups[h]) : h \in 1..(g - 1)}

\* The positions held by the groups whose seed precedes position i.
GroupedBySeedsBefore(i) ==
    UNION {Range(op_groups[h]) : h \in {h \in DOMAIN op_groups : op_groups[h][1] < i}}

Grouped == UNION {Range(op_groups[h]) : h \in DOMAIN op_groups}

\* The places (group, index in the group) at which the groups hold position p.
PlacesOf(p) ==
    {place \in (DOMAIN op_groups) \X (DOMAIN op_jobs) :
        /\ place[2] \in DOMAIN op_groups[place[1]]
        /\ op_groups[place[1]][place[2]] = p}

\* C11: every group get_duplicate_groups returns holds at least two jobs, the
\* groups hold positions of the batch, and every position of the batch is held
\* at most once over all groups; when the call fails it returns no group.
C11_GroupsDisjointNoSingletons ==
    last_op = "get_duplicate_groups" =>
        /\ op_raised => op_groups = <<>>
        /\ \A g \in DOMAIN op_groups :
               /\ Len(op_groups[g]) >= 2
               /\ Range(op_groups[g]) \subseteq DOMAIN op_jobs
        /\ \A p \in DOMAIN op_jobs : Cardinality(PlacesOf(p)) <= 1

\* A call that returned two groups.
C11_Witness == GroupsCall /\ Len(op_groups) = 2

\* C12: a group is its seed followed, in input order, by exactly the later
\* positions that no earlier group holds and whose job is similar enough to the
\* seed's job; the groups come in the order of their seeds; a position left
\* out of every group has no such later position.  So of three jobs of which
\* the second and the third are similar enough to the first, the group is all
\* three, whether or not the third is similar to the second.
C12_SeedAnchored ==
    GroupsCall =>
        /\ \A g \in DOMAIN op_groups :
               LET group == op_groups[g]
                   seed == group[1]
               IN  /\ \A k \in 1..(Len(group) - 1) : group[k] < group[k + 1]
                   /\ \A h \in 1..(g - 1) : op_groups[h][1] < seed
                   /\ seed \notin GroupedBefore(g)
                   /\ \A j \in DOMAIN op_jobs :
                          j \in Range(Tail(group)) <=>
                              /\ j > seed
                              /\ j \notin GroupedBefore(g)
                              /\ SimilarEnough(op_jobs[j], op_jobs[seed])
        /\ \A i \in DOMAIN op_jobs \ Grouped :
               \A j \in DOMAIN op_jobs :
                   (j > i /\ j \notin GroupedBySeedsBefore(i))
                       => ~SimilarEnough(op_jobs[j], op_jobs[i])
        /\ ( /\ Len(op_jobs) = 3
             /\ SimilarEnough(op_jobs[2], op_jobs[1])
             /\ SimilarEnough(op_jobs[3], op_jobs[1]) ) => op_groups = << <<1, 2, 3>> >>

\* Three jobs in one group although the third is not similar enough to the
\* second, nor the second to the third.
C12_Witness ==
    /\ GroupsCall
    /\ op_groups = << <<1, 2, 3>> >>
    /\ ~SimilarEnough(op_jobs[3], op_jobs[2])
    /\ ~SimilarEnough(op_jobs[2], op_jobs[3])

\* The groups of a batch as the threshold and the jobs alone determine them:
\* from position i on, with the positions in taken already grouped or passed.
RECURSIVE GroupsFrom(_, _, _)
GroupsFrom(jobs, i, taken) ==
    IF i > Len(jobs) THEN <<>>
    ELSE IF i \in taken THEN GroupsFrom(jobs, i + 1, taken)
    ELSE LET later == {j \in (i + 1)..Len(jobs) :
                          j \notin taken /\ SimilarEnough(jobs[j], jobs[i])}
         IN  (IF later = {} THEN <<>> ELSE << <<i>> \o SeqOf(later) >>)
                 \o GroupsFrom(jobs, i + 1, taken \cup {i} \cup later)

\* C13: get_duplicate_groups leaves seen_hashes (and what the session has
\* accepted) as it found it, and the groups it returns are those the batch and
\* the threshold determine, whatever seen_hashes holds.
C13_GroupsIgnoreSeenHashes ==
    last_op = "get_duplicate_groups" =>
        /\ seen_hashes = seen_before
        /\ accepted = prior_accepted
        /\ ~op_raised => op_groups = GroupsFrom(op_jobs, 1, {})

\* A call that grouped jobs whose fingerprints seen_hashes held.
C13_Witness ==
    /\ GroupsCall
    /\ \E p \in Grouped : HashOf[op_jobs[p]] \in seen_hashes
    /\ \E p \in DOMAIN op_jobs \ Grouped : HashOf[op_jobs[p]] \in seen_hashes

\* ------------------------------------------------ claims on _normalize_text

\* C14: normalizing the result of a normalization gives the same string, for
\* every text; among them the texts in which stripping the punctuation spells
\* a stop word ("a.n") or merges two words ("n.a").
C14_NormalizeIdempotent ==
    fn_name = "_normalize_text" =>
        \A k \in 2..Len(fn_out) : fn_out[k] = fn_out[k - 1]

\* The text "a.n" normalized twice: the stop word "an" it turns into is
\* dropped in the first pass.
C14_Witness ==
    /\ fn_name = "_normalize_text"
    /\ fn_args = Str(<<"a", ".", "n">>)
    /\ fn_out = << <<>>, <<>> >>

\* The words of a string: its maximal runs without a space.
WordsOf(s) ==
    {SubSeq(s, span[1], span[2]) :
        span \in {span \in (DOMAIN s) \X (DOMAIN s) :
                     /\ span[1] <= span[2]
                     /\ \A k \in span[1]..span[2] : s[k] # " "
                     /\ (span[1] = 1 \/ s[span[1] - 1] = " ")
                     /\ (span[2] = Len(s) \/ s[span[2] + 1] = " ")}}

\* A canonical text: lower case, word characters and single spaces only, no
\* space at either end, no word that is a stop word.
Canonical(s) ==
    /\ \A i \in DOMAIN s :
           /\ s[i] \notin Range(UpperCase)
           /\ IsWord(s[i]) \/ s[i] = " "
    /\ s # <<>> => (s[1] # " " /\ s[Len(s)] # " ")
    /\ \A i \in 1..(Len(s) - 1) : ~(s[i] = " " /\ s[i + 1] = " ")
    /\ WordsOf(s) \cap stop_words = {}

\* C20: what _normalize_text returns is canonical, and for None or the empty
\* string it is the empty string.
C20_NormalizeCanonical ==
    (fn_name = "_normalize_text" /\ Len(fn_out) >= 1) =>
        /\ Canonical(fn_out[1])
        /\ IsFalsy(fn_args) => fn_out[1] = <<>>

\* A text with an upper-case stop word, whitespace and punctuation, of which
\* a word is left.
C20_Witness ==
    /\ fn_name = "_normalize_text"
    /\ fn_args = Str(<<"A", "\t", ".", "n">>)
    /\ fn_out = << <<"n">> >>

\* ------------------------------------------- claims on the similarity ratio

RatioCalls == IF fn_name = "ratio" THEN Range(fn_out) ELSE {}

\* C15: the ratio of a pair of normalized strings is the same whichever of
\* the two is the first argument, and so it exceeds a threshold one way
\* exactly when it does the other way.
C15_RatioSymmetric ==
    \A c \in RatioCalls : \A d \in RatioCalls :
        (c.a = d.b /\ c.b = d.a) =>
            /\ c.ratio.num * d.ratio.den = d.ratio.num * c.ratio.den
            /\ \A threshold \in Thresholds :
                   Exceeds(c.ratio, threshold) <=> Exceeds(d.ratio, threshold)

\* C16: the ratio of a normalized string and itself is 1.0, the empty string
\* included.
C16_RatioReflexive ==
    \A c \in RatioCalls : c.a = c.b => c.ratio.num = c.ratio.den

\* The ratio taken on the empty string and itself.
C16_Witness ==
    /\ fn_name = "ratio"
    /\ fn_args = << <<>>, <<>> >>
    /\ Len(fn_out) >= 1

\* C17: the ratio is twice a number of matched characters, which neither
\* string is too short for, over the sum of the lengths; it lies between 0
\* and 1, and it is 0 when exactly one of the strings is empty.
C17_RatioRange ==
    \A c \in RatioCalls :
        /\ c.ratio.den > 0
        /\ 0 <= c.ratio.num /\ c.ratio.num <= c.ratio.den
        /\ Len(c.a) + Len(c.b) > 0 =>
               /\ c.ratio.den = Len(c.a) + Len(c.b)
               /\ \E matched \in 0..Len(c.a) :
                      matched <= Len(c.b) /\ c.ratio.num = 2 * matched
        /\ ((c.a = <<>>) # (c.b = <<>>)) => c.ratio.num = 0

\* The ratio taken both ways on a pair of which exactly one string is empty.
C17_Witness ==
    /\ fn_name = "ratio"
    /\ fn_args = << <<>>, <<"x", " ", "y">> >>
    /\ Len(fn_out) = 2

\* -------------------------------------------------- claims on the helpers

HashCalls == {k \in DOMAIN fn_out : fn_out[k].fn = "_generate_job_hash"}

SimilarCalls == {k \in DOMAIN fn_out : fn_out[k].fn = "_is_similar_to_existing"}

\* C18: _generate_job_hash gives the same token on every call on a job, and
\* the same token for two jobs of which one field differs only in the case of
\* a letter, in a punctuation mark, in a run of whitespace or in a stop word.
C18_FingerprintOfNormalizedFields ==
    (fn_name = "helpers" /\ fn_args.edit \in Edits) =>
        \A k \in HashCalls : \A l \in HashCalls :
            /\ ~fn_out[k].raised
            /\ fn_out[k].hash = fn_out[l].hash

\* The token taken on a job and on the job with a stop word more in its
\* title.
C18_Witness ==
    /\ fn_name = "helpers"
    /\ fn_args.edit = "stop word"
    /\ fn_args.key = "title"
    /\ fn_args.job.title = Str(<<"n", "a">>)
    /\ Len(fn_out) = 2
    /\ fn_out[1].job = fn_args.job
    /\ fn_out[2].job = fn_args.variant
    /\ fn_out[1].hash = fn_out[2].hash

\* The two jobs of the pair: the one that lacks the field, the one with "".
MissingPair == {fn_args.job, fn_args.variant}

\* C19: on a job that lacks one of the four fields, _generate_job_hash and
\* _is_similar_to_existing do not raise and give what they give on the job
\* that holds the empty string for the field: the same token, and the same
\* verdict against every other job, as the incoming job and as the existing one.
C19_MissingFieldIsEmptyString ==
    (fn_name = "helpers" /\ fn_args.edit = "missing") =>
        /\ \A k \in DOMAIN fn_out : ~fn_out[k].raised
        /\ \A k \in HashCalls : \A l \in HashCalls : fn_out[k].hash = fn_out[l].hash
        /\ \A k \in SimilarCalls : \A l \in SimilarCalls :
               ( \/ /\ fn_out[k].job \in MissingPair
                    /\ fn_out[l].job \in MissingPair
                    /\ fn_out[k].existing = fn_out[l].existing
                 \/ /\ fn_out[k].existing \in MissingPair
                    /\ fn_out[l].existing \in MissingPair
                    /\ fn_out[k].job = fn_out[l].job )
               => fn_out[k].verdict = fn_out[l].verdict

\* A job without a company and the same job with the company "" are both
\* found similar to a job of the same title.
C19_Witness ==
    /\ fn_name = "helpers"
    /\ fn_args.edit = "missing"
    /\ fn_args.key = "company"
    /\ Len(fn_out) = 2
    /\ SimilarCalls = {1, 2}
    /\ fn_out[1].job = fn_args.job
    /\ fn_out[2].job = fn_args.variant
    /\ fn_out[1].existing = fn_out[2].existing
    /\ fn_out[1].verdict /\ fn_out[2].verdict

\* ------------------------------------------------ claims on the whole engine

\* Computed once: the pairs of jobs equal on the normalized title, company
\* and location whose normalized descriptions agree on their first
\* DescriptionLimit characters.
AgreeUpToLimit ==
    [id \in Hashable, other \in Hashable |->
        /\ \A key \in {"title", "company", "location"} :
               NormalizeText(JobGet(JobTable[id], key))
                   = NormalizeText(JobGet(JobTable[other], key))
        /\ LET description == NormalizeText(JobGet(JobTable[id], "description"))
               other_description == NormalizeText(JobGet(JobTable[other], "description"))
           IN  \A i \in 1..DescriptionLimit :
                   /\ i <= Len(description) <=> i <= Len(other_description)
                   /\ i <= Len(description) => description[i] = other_description[i]]

\* The jobs accepted in this session before the loop reached position i.
AcceptedUpTo(i) == prior_accepted \cup {op_jobs[k] : k \in AcceptedBefore(i)}

\* C21: a job that agrees with a job accepted earlier in the session on the
\* normalized title, company and location and on the first DescriptionLimit
\* characters of the normalized description is rejected as an exact
\* duplicate, whatever follows these characters and whatever normalization
\* removed before them.
C21_DescriptionCutAfterNormalization ==
    CompletedCall =>
        \A i \in DOMAIN op_jobs :
            (\E id \in AcceptedUpTo(i) : AgreeUpToLimit[op_jobs[i], id])
                => op_log[i] = "exact"

\* Job 8 rejected as an exact duplicate of job 7, accepted by an earlier
\* call: their descriptions differ after the first DescriptionLimit
\* normalized characters, and job 8's has punctuation, a stop word and a run
\* of whitespace before them.
C21_Witness ==
    /\ CompletedCall
    /\ prior_accepted = {7}
    /\ op_jobs = <<8>>
    /\ op_log = <<"exact">>
    /\ NormalizeText(JobTable[7].description) # NormalizeText(JobTable[8].description)

\* C24: in the list a call of remove_duplicates returns without a fault no
\* two jobs have the same fingerprint, and no job is similar enough, taken
\* as the incoming one, to a job that precedes it in the list.
C24_ResultPairwiseDistinct ==
    CompletedCall =>
        \A j \in DOMAIN op_result : \A i \in 1..(j - 1) :
            /\ HashOf[op_result[i]] # HashOf[op_result[j]]
            /\ ~SimilarEnough(op_result[j], op_result[i])

\* Two jobs returned whose titles are similar above the threshold, but not
\* above 0.95, and whose companies are not.
C24_Witness ==
    /\ CompletedCall
    /\ Len(op_result) = 2
    /\ TitleSimilarity[op_result[2], op_result[1]].num * 100
           > similarity_threshold * TitleSimilarity[op_result[2], op_result[1]].den

\* Computed once: the lists remove_duplicates can return without a fault at
\* a threshold, over every batch and every content of seen_hashes.
ResultsOfCalls ==
    [threshold \in Thresholds |->
        {run.unique_jobs :
            run \in {run \in {DedupLoop(jobs, 1, <<>>, seen, <<>>, threshold) :
                                 jobs \in Batches,
                                 seen \in SUBSET {HashOf[id] : id \in Hashable \cap BatchJobIds}} :
                        ~run.raised}}]

\* C25: a call that starts with seen_hashes empty, on a list that a call
\* without a fault can return at this threshold, returns the list as it is.
C25_IdempotentOnCleanSession ==
    ( /\ last_op = "remove_duplicates"
      /\ seen_before = {}
      /\ op_jobs \in ResultsOfCalls[similarity_threshold] ) =>
        /\ ~op_raised
        /\ op_result = op_jobs

\* After a call and a reset, a second call on a list of two jobs that a call
\* can return.
C25_Witness ==
    /\ CompletedCall
    /\ n_calls = 2
    /\ seen_before = {}
    /\ op_jobs \in ResultsOfCalls[similarity_threshold]
    /\ Len(op_jobs) = 2
    /\ op_result = op_jobs

\* C26: a job that an earlier call of the session rejected as similar, and
\* whose fingerprint is that of no job accepted in the session, is accepted
\* by a later call in which no job accepted before it in the batch is similar
\* enough to it.
C26_SimilarRejectionForgotten ==
    CompletedCall =>
        \A i \in DOMAIN op_jobs :
            ( /\ op_jobs[i] \in similar_rejected
              /\ HashOf[op_jobs[i]] \notin HashesOf(prior_accepted)
              /\ \A k \in AcceptedBefore(i) : ~SimilarEnough(op_jobs[i], op_jobs[k]) )
            => op_log[i] = "unique"

\* A job rejected as similar by the call before is accepted, although the
\* job it was similar to was accepted in the session and there was no reset.
C26_Witness ==
    /\ CompletedCall
    /\ \E i \in DOMAIN op_jobs :
           /\ op_jobs[i] \in similar_rejected
           /\ op_log[i] = "unique"
           /\ \E id \in prior_accepted : SimilarEnough(op_jobs[i], id)

\* C27: a call of remove_duplicates that falls back to its input leaves
\* seen_hashes as it was when the call began.
C27_FaultLeavesSeenHashes ==
    (last_op = "remove_duplicates" /\ op_raised) => seen_hashes = seen_before

\* The smaller of the configured threshold and the 0.95 of the title-only
\* clause, in hundredths.
LowerThreshold ==
    IF similarity_threshold < TitleOnlyThreshold THEN similarity_threshold
    ELSE TitleOnlyThreshold

\* C28: for two records without a company, _is_similar_to_existing takes the
\* company similarity for 1.0, and finds the pair duplicate exactly when the
\* title similarity is above the smaller of the threshold and 0.95.
C28_NoCompanyNoEffect ==
    (fn_name = "helpers" /\ fn_args.edit = "api records") =>
        \A k \in SimilarCalls :
            LET call == fn_out[k]
                title_similarity == Ratio(NormalizeText(JobGet(call.job, "title")),
                                          NormalizeText(JobGet(call.existing, "title")))
                company_similarity == Ratio(NormalizeText(JobGet(call.job, "company")),
                                            NormalizeText(JobGet(call.existing, "company")))
            IN  /\ ~call.raised
                /\ company_similarity.num = company_similarity.den
                /\ call.verdict <=> Exceeds(title_similarity, LowerThreshold)

\* Two records found duplicate at 0.8 on a title similarity that is not
\* above 0.95.
C28_Witness ==
    /\ fn_name = "helpers"
    /\ fn_args.edit = "api records"
    /\ similarity_threshold = DefaultThreshold
    /\ Len(fn_out) >= 1
    /\ fn_out[1].verdict
    /\ ~Exceeds(Ratio(NormalizeText(JobGet(fn_out[1].job, "title")),
                      NormalizeText(JobGet(fn_out[1].existing, "title"))),
                TitleOnlyThreshold)

\* C22: enrichment is memoized per name.  A call whose name was looked up by
\* an earlier call since the last clear_cache makes no external request and
\* returns what that first call returned; clear_cache forgets every name.
C22_EnrichmentMemoized ==
    /\ (enrich_call.op = "enrich_company" /\ enrich_call.looked_up_before)
           => /\ enrich_call.requests = 0
              /\ enrich_call.name \in DOMAIN lookups
              /\ enrich_call.result = lookups[enrich_call.name]
    /\ enrich_call.op = "clear_cache" => DOMAIN lookups = {} /\ DOMAIN cache = {}

\* A later call for a name the first call found in the service.
C22_Witness ==
    /\ enrich_call.op = "enrich_company"
    /\ enrich_call.looked_up_before
    /\ enrich_call.name.kind = "str"
    /\ enrich_call.result.sources = <<"wikipedia">>
    /\ enrich_call.requests = 0

\* C30: every enrich_company call ends on an answer of the service: the
\* lookups that call each other stay within what the call stack allows, the
\* call never ends by running out of stack.
C30_LookupsBounded ==
    enrich_call.op = "enrich_company" => ~enrich_call.exhausted

\* C23: in run_daily_pipeline and run_custom_search the cleaning step runs
\* only after the fetch step reported success, and it cleans the raw-data row
\* that the fetch step of the same run stored.
C23_CleansWhatWasFetched ==
    (/\ last_run.op \in {"run_daily_pipeline", "run_custom_search"}
     /\ last_run.clean_status # "none")
        => /\ last_run.fetch_status = "success"
           /\ last_run.cleaned_id = last_run.stored_id

\* C29: the counts a successful clean_data run stores never increase along
\* the pipeline, and the enrichment keeps every verified job.
C29_CountsNeverIncrease ==
    \A id \in DOMAIN processed_data :
        LET metadata == processed_data[id].metadata
        IN  /\ metadata.original_count >= metadata.after_dedup
            /\ metadata.after_dedup >= metadata.after_filtering
            /\ metadata.after_filtering >= metadata.after_verification
            /\ metadata.after_verification = metadata.final_count

\* A successful run on a batch that remove_duplicates returned whole from its
\* except branch, that was given filters, and that lost a job to the fake
\* detection.
C29_Witness ==
    /\ last_run.op = "clean_data"
    /\ last_run.clean_status = "success"
    /\ last_run.fallback
    /\ last_run.filters = "keywords and location"
    /\ LET metadata == processed_data[Len(processed_data)].metadata
       IN  /\ metadata.original_count = metadata.after_dedup
           /\ metadata.after_dedup > metadata.after_filtering
           /\ metadata.after_filtering > metadata.after_verification

====
